---- MODULE Spec2Model ----
\* Verification model of the Ice 2DA editor: the 2DA text codec
\* (data/twoda.py), the table model (gui/table_model.py) and the file
\* manager's open/save path (gui/file_manager.py).
\*
\* Text is modelled as a sequence of one-character strings, so that
\* tokenizing, padding, trimming and line splitting are computed character
\* by character as the Python code computes them.  Spans keep Python's
\* 0-based half-open offsets: a span <<s, e>> covers line[s+1 .. e].
EXTENDS Integers, Sequences, FiniteSets, TLC

\* ------------------------------------------------------------------
\* Characters
\* ------------------------------------------------------------------
SP == " "
TAB == "\t"
LF == "\n"
CR == "\r"
\* A lone surrogate code point: a str character that str.encode('utf-8')
\* rejects with UnicodeEncodeError.
SURR == "U+DC80"

Min(a, b) == IF a < b THEN a ELSE b
Max(a, b) == IF a > b THEN a ELSE b

\* str.isspace() / the regex class \s, restricted to the model's alphabet
isspace(c) == c \in {SP, TAB, LF, CR}

spaces(n) == [i \in 1..n |-> SP]

\* str.ljust(width)
ljust(s, w) == s \o spaces(w - Len(s))

RECURSIVE rstrip(_)
rstrip(s) ==
    IF s = <<>> THEN <<>>
    ELSE IF isspace(s[Len(s)]) THEN rstrip(SubSeq(s, 1, Len(s) - 1))
    ELSE s

RECURSIVE lstrip(_)
lstrip(s) ==
    IF s = <<>> THEN <<>>
    ELSE IF isspace(s[1]) THEN lstrip(Tail(s))
    ELSE s

strip(s) == lstrip(rstrip(s))

\* b'\r\n' in raw_data
RECURSIVE contains_crlf(_)
contains_crlf(t) ==
    IF Len(t) < 2 THEN FALSE
    ELSE IF t[1] = CR /\ t[2] = LF THEN TRUE
    ELSE contains_crlf(Tail(t))

\* str.replace('\r\n', '\n')
RECURSIVE replace_crlf(_)
replace_crlf(t) ==
    IF t = <<>> THEN <<>>
    ELSE IF Len(t) >= 2 /\ t[1] = CR /\ t[2] = LF
         THEN <<LF>> \o replace_crlf(SubSeq(t, 3, Len(t)))
    ELSE <<t[1]>> \o replace_crlf(Tail(t))

\* str.splitlines(): breaks on \n, \r and \r\n; no empty last element
RECURSIVE splitlines_from(_, _)
splitlines_from(t, cur) ==
    IF t = <<>> THEN (IF cur = <<>> THEN <<>> ELSE <<cur>>)
    ELSE IF t[1] = CR /\ Len(t) >= 2 /\ t[2] = LF
         THEN <<cur>> \o splitlines_from(SubSeq(t, 3, Len(t)), <<>>)
    ELSE IF t[1] \in {LF, CR}
         THEN <<cur>> \o splitlines_from(Tail(t), <<>>)
    ELSE splitlines_from(Tail(t), Append(cur, t[1]))

splitlines(t) == splitlines_from(t, <<>>)

\* str.startswith("2DA")
startswith_2DA(s) == Len(s) >= 3 /\ s[1] = "2" /\ s[2] = "D" /\ s[3] = "A"

\* the default version label "2DA V2.0" (data/twoda.py TwoDAData.version_line)
DefaultVersion == <<"2", "D", "A", " ", "V", "2", ".", "0">>

\* the sentinel "****"
Sentinel == <<"*", "*", "*", "*">>

\* the label given to one inserted column
NewColumnName == <<"N", "e", "w", "C", "o", "l", "u", "m", "n">>

\* ------------------------------------------------------------------
\* data/twoda.py: parse_raw_line
\* ------------------------------------------------------------------
\* re.finditer(r"\S+", line): start = -1 while outside a token
RECURSIVE scan_tokens(_, _, _)
scan_tokens(line, i, start) ==
    IF i > Len(line)
    THEN (IF start >= 0 THEN << <<start, Len(line)>> >> ELSE <<>>)
    ELSE IF isspace(line[i])
         THEN (IF start >= 0 THEN << <<start, i - 1>> >> ELSE <<>>)
              \o scan_tokens(line, i + 1, -1)
    ELSE scan_tokens(line, i + 1, IF start >= 0 THEN start ELSE i - 1)

parse_raw_line(line) ==
    LET sp == scan_tokens(line, 1, -1)
    IN [raw |-> line,
        fields |-> [k \in 1..Len(sp) |-> SubSeq(line, sp[k][1] + 1, sp[k][2])],
        spans |-> sp]

\* ------------------------------------------------------------------
\* data/twoda.py: load_2da
\* ------------------------------------------------------------------
RECURSIVE count_leading_blank(_)
count_leading_blank(lines) ==
    IF lines # <<>> /\ strip(lines[1]) = <<>>
    THEN 1 + count_leading_blank(Tail(lines))
    ELSE 0

\* [parse_raw_line(line) for line in lines if line.strip()]
RECURSIVE parse_nonblank(_, _)
parse_nonblank(lines, sep) ==
    IF lines = <<>> THEN <<>>
    ELSE IF strip(lines[1]) = <<>> THEN parse_nonblank(Tail(lines), sep)
    ELSE LET row == parse_raw_line(lines[1])
         IN <<[raw |-> row.raw, fields |-> row.fields, spans |-> row.spans,
               linesep |-> sep]>> \o parse_nonblank(Tail(lines), sep)

\* the value of doc.current_data before any file is loaded
NoData ==
    [ok |-> FALSE, header_fields |-> <<>>, row_fields |-> <<>>,
     header_format |-> [raw |-> <<>>, fields |-> <<>>, spans |-> <<>>,
                        linesep |-> <<LF>>],
     row_formats |-> <<>>, version_line |-> DefaultVersion,
     empty_lines_before_header |-> 0]

\* ok = FALSE stands for the ValueError("Empty or invalid 2DA")
load_2da(raw_data) ==
    LET crlf == contains_crlf(raw_data)
        linesep == IF crlf THEN <<CR, LF>> ELSE <<LF>>
        text_data == IF crlf THEN replace_crlf(raw_data) ELSE raw_data
        lines == splitlines(text_data)
        hasVersion == lines # <<>> /\ startswith_2DA(strip(lines[1]))
        version == IF hasVersion THEN strip(lines[1]) ELSE DefaultVersion
        lines1 == IF hasVersion THEN Tail(lines) ELSE lines
        empty_count == count_leading_blank(lines1)
        lines2 == SubSeq(lines1, empty_count + 1, Len(lines1))
        parsed == parse_nonblank(lines2, linesep)
    IN IF parsed = <<>> THEN NoData
       ELSE [ok |-> TRUE,
             header_fields |-> parsed[1].fields,
             row_fields |-> [k \in 1..(Len(parsed) - 1) |-> parsed[k + 1].fields],
             header_format |-> parsed[1],
             row_formats |-> Tail(parsed),
             version_line |-> version,
             empty_lines_before_header |-> empty_count]

\* ------------------------------------------------------------------
\* data/twoda.py: calculate_column_widths
\* ------------------------------------------------------------------
SetMax(S) == IF S = {} THEN 0 ELSE CHOOSE m \in S : \A x \in S : x <= m

calculate_column_widths(data) ==
    IF data.header_fields = <<>> \/ data.row_fields = <<>>
    THEN [header_widths |-> <<>>, data_widths |-> <<>>]
    ELSE LET rows == data.row_fields
             data_num_cols == SetMax({Len(rows[r]) : r \in 1..Len(rows)})
         IN [header_widths |->
                 [i \in 1..Len(data.header_fields) |-> Len(data.header_fields[i])],
             data_widths |->
                 [i \in 1..data_num_cols |->
                     SetMax({0} \cup {Len(rows[r][i]) :
                                 r \in {q \in 1..Len(rows) : i <= Len(rows[q])}})]]

\* ------------------------------------------------------------------
\* data/twoda.py: rebuild_line_dynamic
\* ------------------------------------------------------------------
orig_width(fmt, i) == fmt.spans[i][2] - fmt.spans[i][1]

\* zip(fmt.spans, new_fields) stops at the shorter of the two
zip_len(fmt, new_fields) == Min(Len(fmt.spans), Len(new_fields))

\* variant that forgets the length test
needs_expansion_sentinel_only(fmt, new_fields) ==
    \E i \in 1..zip_len(fmt, new_fields) : new_fields[i] = Sentinel

needs_expansion(fmt, new_fields) ==
    \E i \in 1..zip_len(fmt, new_fields) :
        Len(new_fields[i]) > orig_width(fmt, i) \/ new_fields[i] = Sentinel

\* the branch that patches the values into the original raw line
rebuild_preserved(fmt, new_fields) ==
    LET n == zip_len(fmt, new_fields)
        field_text(i) ==
            ljust(SubSeq(new_fields[i], 1, Min(Len(new_fields[i]), orig_width(fmt, i))),
                  orig_width(fmt, i))
        owner(p) == {i \in 1..n : fmt.spans[i][1] < p /\ p <= fmt.spans[i][2]}
        result == [p \in 1..Len(fmt.raw) |->
                      IF owner(p) = {} THEN fmt.raw[p]
                      ELSE LET i == CHOOSE j \in owner(p) : TRUE
                           IN field_text(i)[p - fmt.spans[i][1]]]
    IN rstrip(result)

\* width given to field i in the expanding branch
actual_width(fmt, new_fields, i) ==
    IF new_fields[i] = Sentinel THEN 4
    ELSE Max(orig_width(fmt, i), Len(new_fields[i]))

\* variant that cuts the value to its original span, as rebuild_line did
expanded_field_text_truncating(fmt, new_fields, i) ==
    IF new_fields[i] = Sentinel THEN Sentinel
    ELSE ljust(SubSeq(new_fields[i], 1, Min(Len(new_fields[i]), orig_width(fmt, i))),
               orig_width(fmt, i))

\* text emitted for field i in the expanding branch
expanded_field_text(fmt, new_fields, i) ==
    IF new_fields[i] = Sentinel THEN Sentinel
    ELSE ljust(new_fields[i], actual_width(fmt, new_fields, i))

\* variant that takes the span end as inclusive
adjusted_spacing_inclusive_end(fmt, new_fields, i) ==
    LET orig_spacing == fmt.spans[i + 1][1] - (fmt.spans[i][2] - 1)
        expansion == actual_width(fmt, new_fields, i) - orig_width(fmt, i)
    IN Max(1, orig_spacing - expansion)

\* spaces emitted after field i in the expanding branch
adjusted_spacing(fmt, new_fields, i) ==
    LET orig_spacing == fmt.spans[i + 1][1] - fmt.spans[i][2]
        expansion == actual_width(fmt, new_fields, i) - orig_width(fmt, i)
    IN Max(1, orig_spacing - expansion)

RECURSIVE expanded_parts(_, _, _)
expanded_parts(fmt, new_fields, i) ==
    IF i > zip_len(fmt, new_fields) THEN <<>>
    ELSE expanded_field_text(fmt, new_fields, i)
         \o (IF i < Len(fmt.spans)
             THEN spaces(adjusted_spacing(fmt, new_fields, i))
             ELSE <<>>)
         \o expanded_parts(fmt, new_fields, i + 1)

rebuild_expanded(fmt, new_fields) == rstrip(expanded_parts(fmt, new_fields, 1))

rebuild_line_dynamic(fmt, new_fields, column_widths, preserve_spacing) ==
    IF new_fields = <<>> \/ fmt.spans = <<>> THEN fmt.raw
    ELSE IF preserve_spacing /\ ~needs_expansion(fmt, new_fields)
         THEN rebuild_preserved(fmt, new_fields)
    ELSE rebuild_expanded(fmt, new_fields)

\* ------------------------------------------------------------------
\* data/twoda.py: save_2da
\* ------------------------------------------------------------------
\* the header line save_2da renders
header_line(data) ==
    rebuild_line_dynamic(data.header_format, data.header_fields,
                         calculate_column_widths(data).header_widths, TRUE)

\* the data lines save_2da renders: zip(data.row_formats, data.row_fields)
row_lines(data) ==
    LET data_widths == calculate_column_widths(data).data_widths
    IN [k \in 1..Min(Len(data.row_formats), Len(data.row_fields)) |->
           rebuild_line_dynamic(data.row_formats[k], data.row_fields[k],
                                data_widths, FALSE)]

\* variant that writes one blank line fewer than were counted
restored_blank_lines_less(data, linesep) ==
    [k \in 1..(data.empty_lines_before_header - 1) |-> linesep]

\* "for _ in range(data.empty_lines_before_header): f.write(linesep)"
restored_blank_lines(data, linesep) ==
    [k \in 1..data.empty_lines_before_header |-> linesep]

\* variant that ends the blank lines with a bare "\n"
save_2da_writes_bare_blank(data) ==
    LET linesep == data.header_format.linesep
        lines == row_lines(data)
    IN <<data.version_line \o linesep>>
       \o [k \in 1..data.empty_lines_before_header |-> <<LF>>]
       \o <<header_line(data) \o linesep>>
       \o [k \in 1..Len(lines) |-> lines[k] \o linesep]

\* the strings handed to f.write, in order, before encoding
save_2da_writes(data) ==
    LET linesep == data.header_format.linesep
        lines == row_lines(data)
    IN <<data.version_line \o linesep>>
       \o restored_blank_lines(data, linesep)
       \o <<header_line(data) \o linesep>>
       \o [k \in 1..Len(lines) |-> lines[k] \o linesep]

\* str.encode('utf-8') raises UnicodeEncodeError on a lone surrogate
encodable(s) == \A i \in 1..Len(s) : s[i] # SURR

RECURSIVE concat(_)
concat(chunks) ==
    IF chunks = <<>> THEN <<>> ELSE chunks[1] \o concat(Tail(chunks))

\* number of leading chunks written before one fails to encode
RECURSIVE encodable_prefix(_)
encodable_prefix(chunks) ==
    IF chunks = <<>> \/ ~encodable(chunks[1]) THEN 0
    ELSE 1 + encodable_prefix(Tail(chunks))

\* outcome of save_2da once open(path, "wb") has succeeded: the file is
\* truncated, then receives every chunk written before the first failure
save_2da(data) ==
    LET chunks == save_2da_writes(data)
        n == encodable_prefix(chunks)
    IN [raised |-> n < Len(chunks),
        content |-> concat(SubSeq(chunks, 1, n))]

\* ------------------------------------------------------------------
\* Python list primitives used by gui/table_model.py
\* ------------------------------------------------------------------
\* list.insert(i, x), i a 0-based index (clamped as Python clamps it)
list_insert(s, i, x) ==
    LET k == IF i < 0 THEN Max(i + Len(s), 0) ELSE Min(i, Len(s))
    IN SubSeq(s, 1, k) \o <<x>> \o SubSeq(s, k + 1, Len(s))

\* del s[a:b], 0 <= a
list_del_slice(s, a, b) ==
    LET lo == Min(a, Len(s))
        hi == Max(lo, Min(b, Len(s)))
    IN SubSeq(s, 1, lo) \o SubSeq(s, hi + 1, Len(s))

\* while len(row) < n: row.append(fill)
pad_row(row, n, fill) ==
    IF Len(row) < n THEN row \o [i \in 1..(n - Len(row)) |-> fill] ELSE row

\* insert x at 0-based index i, count times in a row (the loop
\* "for i in range(count): lst.insert(at + i, f(i))")
RECURSIVE insert_run(_, _, _, _)
insert_run(s, at, items, i) ==
    IF i > Len(items) THEN s
    ELSE insert_run(list_insert(s, at + i - 1, items[i]), at, items, i + 1)

Digits == <<"1", "2", "3", "4", "5", "6", "7", "8", "9">>

\* the labels insertColumns gives to count new columns
new_column_names(count) ==
    [i \in 1..count |->
        IF count = 1 THEN NewColumnName ELSE Append(NewColumnName, Digits[i])]

\* ------------------------------------------------------------------
\* Bounds and input sets
\* ------------------------------------------------------------------
\* most structural/cell operations applied to one open document
MaxOps == 1
\* most rows of a generated input file
MaxFileRows == 1
\* most blank lines after the version line of a generated input file
MaxBlank == 1
\* most save_2da calls of one script run
MaxSaves == 2
\* most save_file calls on one open document
MaxSessionSaves == 1
\* largest count argument tried for insertRows/removeRows/insertColumns/removeColumns
MaxCount == 1
\* most cell edits and handler calls of one document session (undo and
\* redo are bounded by the commands there are)
MaxDocOps == 1

\* most handler calls of a session of column commands
MaxColumnOps == 3

\* most writes of the file by another program during a session
MaxExternal == 1

\* first lines tried: a version line, an indented and padded version line,
\* and no version line at all
VersionLines == {<<DefaultVersion>>, <<<<SP>> \o DefaultVersion \o <<SP>>>>, <<>>}

HeaderLines ==
    {<<"A", SP, "B">>,
     <<SP, "A", SP, SP, "B", "b", SP>>,
     <<"A", TAB, "*", "*", "*", "*">>}

RowLines ==
    {<<"0", SP, "x", SP, "y">>,
     <<SP, SP, "0", SP, SP, "x", "x", TAB, "y", SP>>,
     <<"1", SP, "*", "*", "*", "*", SP, SP, "z">>}

RECURSIVE SeqsUpTo(_, _)
SeqsUpTo(S, n) ==
    IF n = 0 THEN {<<>>}
    ELSE LET shorter == SeqsUpTo(S, n - 1)
         IN shorter \cup {Append(q, x) : q \in {t \in shorter : Len(t) = n - 1}, x \in S}

\* join lines with a terminator; the last line is terminated iff final
RECURSIVE join_lines(_, _, _)
join_lines(lines, sep, final) ==
    IF lines = <<>> THEN <<>>
    ELSE IF Len(lines) = 1 THEN lines[1] \o (IF final THEN sep ELSE <<>>)
    ELSE lines[1] \o sep \o join_lines(Tail(lines), sep, final)

Terminations == {<<<<LF>>, TRUE>>, <<<<CR, LF>>, FALSE>>}

\* files in which one blank line precedes the version line
LeadingBlankFiles ==
    {join_lines(<<<<>>, DefaultVersion>> \o [i \in 1..b |-> <<>>] \o <<h>> \o rs,
                t[1], t[2]) :
        b \in 0..MaxBlank, h \in HeaderLines,
        rs \in SeqsUpTo(RowLines, MaxFileRows), t \in Terminations}

\* the input files of the codec scripts
CodecFiles ==
    {join_lines(v \o [i \in 1..b |-> <<>>] \o <<h>> \o rs, t[1], t[2]) :
        v \in VersionLines, b \in 0..MaxBlank, h \in HeaderLines,
        rs \in SeqsUpTo(RowLines, MaxFileRows), t \in Terminations}
    \cup LeadingBlankFiles

\* values a script or a user writes into a cell
LongValue == <<"q", "q", "q">>
ShortValue == <<"q">>
ScriptValues == {<<>>, ShortValue, LongValue, Sentinel}
CellValues == {<<>>, LongValue, <<SURR>>}

\* the files opened in the editor
GuiFiles ==
    {join_lines(<<DefaultVersion, <<>>, <<"A", SP, "B">>, <<"0", SP, "x", SP, "y">>>>, <<LF>>, TRUE),
     join_lines(<<DefaultVersion, <<>>, <<"A", SP, "B">>, <<"0", SP, "x", SP, "y">>,
                  <<"1", SP, "z", SP, "w">>>>, <<LF>>, TRUE),
     join_lines(<<DefaultVersion, <<"A", SP, "B">>, <<"0", SP, "x">>>>, <<CR, LF>>, TRUE),
     join_lines(<<DefaultVersion, <<>>, <<"A">>, <<"0", SP, "x", SP, "y">>>>, <<LF>>, TRUE),
     join_lines(<<DefaultVersion, <<>>, <<SP, "A", SP, "B">>, <<SP, "0", SP, "x", SP, "y">>>>,
                <<LF>>, TRUE),
     join_lines(<<DefaultVersion, <<"A", SP, "B">>>>, <<LF>>, TRUE)}

\* one-column files for the sessions of column commands: without rows and
\* with one row
ColumnFiles ==
    {join_lines(<<DefaultVersion, <<>>, <<"A">>>>, <<LF>>, TRUE),
     join_lines(<<DefaultVersion, <<>>, <<"A">>, <<"0", SP, "x">>>>, <<LF>>, TRUE)}

\* ------------------------------------------------------------------
\* State
\* ------------------------------------------------------------------
VARIABLES
    disk,       \* bytes of the file at the document's path
    data,       \* the TwoDAData held by the script / doc.current_data
    _header,    \* TwoDATableModel._header (slot 1 is the index column)
    _rows,      \* TwoDATableModel._rows
    pc,         \* "start", "open" (editor) or "loaded", "saved" (script)
    last,       \* the last operation, its index/count arguments and
                \* whether it took effect
    hist,       \* what the tests record: original bytes, bytes before the
                \* last save, edits since the load, saves done
    mtime,      \* os.path.getmtime of the file: a clock value that every
                \* write of the file advances
    undo_stack, \* TwoDADocument.undo_stack: commands, index, clean index
    is_dirty,   \* TwoDADocument.is_dirty
    _last_mtime,            \* TwoDADocument._last_mtime
    _suspend_edit_signal,   \* TwoDATableModel._suspend_edit_signal
    _search_regex,          \* TwoDADocument._search_regex
    _search_last_row,       \* TwoDADocument._search_last_row
    _search_last_col        \* TwoDADocument._search_last_col

\* the fields of the document besides its table and its data
searchVars == <<_search_regex, _search_last_row, _search_last_col>>
docVars == <<undo_stack, is_dirty, _suspend_edit_signal, _last_mtime,
             _search_regex, _search_last_row, _search_last_col>>

vars == <<disk, data, _header, _rows, pc, last, hist, mtime, undo_stack, is_dirty,
          _last_mtime, _suspend_edit_signal, _search_regex, _search_last_row,
          _search_last_col>>

\* QUndoStack(): no command, index 0, clean at index 0
EmptyStack == [cmds |-> <<>>, index |-> 0, clean |-> 0]

\* no pattern set
NoRegex == <<>>

\* the value of _last_mtime before a document is created
NoMtime == -1

\* TwoDADocument.__init__ and TwoDATableModel.__init__
InitDoc ==
    /\ mtime = 0
    /\ undo_stack = EmptyStack
    /\ is_dirty = FALSE
    /\ _last_mtime = NoMtime
    /\ _suspend_edit_signal = FALSE
    /\ _search_regex = NoRegex
    /\ _search_last_row = -1
    /\ _search_last_col = -1

NoOp == [op |-> "none", ok |-> TRUE, args |-> <<>>]

InitHist(f) ==
    [orig |-> f, prev |-> f, kinds |-> {}, nOps |-> 0, saves |-> 0, clean |-> 0]

\* ------------------------------------------------------------------
\* Codec scripts (test_whitespace.py, test_expansion.py): load_2da,
\* at most one direct modification of data, save_2da, and again
\* ------------------------------------------------------------------
InitCodec ==
    /\ disk \in CodecFiles
    /\ data = NoData
    /\ _header = <<>>
    /\ _rows = <<>>
    /\ pc = "start"
    /\ last = NoOp
    /\ hist = InitHist(disk)
    /\ InitDoc

ScriptLoad ==
    /\ pc \in {"start", "saved"}
    /\ hist.saves < MaxSaves
    /\ LET loaded == load_2da(disk)
       IN loaded.ok /\ data' = loaded
    /\ pc' = "loaded"
    /\ last' = [op |-> "load_2da", ok |-> TRUE, args |-> <<>>]
    /\ hist' = [hist EXCEPT !.kinds = {}]
    /\ UNCHANGED <<disk, _header, _rows>>
    /\ UNCHANGED <<mtime, docVars>>

\* data.row_fields[r][c] = v  (r, c are 1-based positions here)
ScriptEditRow ==
    /\ pc = "loaded"
    /\ hist.saves = 0
    /\ hist.kinds = {}
    /\ \E r \in 1..Len(data.row_fields) :
       \E c \in 1..Len(data.row_fields[r]) :
       \E v \in ScriptValues \ {data.row_fields[r][c]} :
          /\ data' = [data EXCEPT !.row_fields[r][c] = v]
          /\ last' = [op |-> "edit_row", ok |-> TRUE, args |-> <<>>]
          /\ hist' = [hist EXCEPT !.kinds = {IF v = <<>> THEN "row_empty" ELSE "row"},
                                  !.clean = 0]
    /\ UNCHANGED <<disk, _header, _rows, pc>>
    /\ UNCHANGED <<mtime, docVars>>

\* data.header_fields[c] = v
ScriptEditHeader ==
    /\ pc = "loaded"
    /\ hist.saves = 0
    /\ hist.kinds = {}
    /\ \E c \in 1..Len(data.header_fields) :
       \E v \in (ScriptValues \ {<<>>, data.header_fields[c]}) :
          /\ data' = [data EXCEPT !.header_fields[c] = v]
          /\ last' = [op |-> "edit_header", ok |-> TRUE, args |-> <<>>]
          /\ hist' = [hist EXCEPT !.kinds = {"header"}, !.clean = 0]
    /\ UNCHANGED <<disk, _header, _rows, pc>>
    /\ UNCHANGED <<mtime, docVars>>

\* save_2da(path, data); every chunk of these scripts encodes
ScriptSave ==
    /\ pc = "loaded"
    /\ LET result == save_2da(data)
       IN /\ disk' = result.content
          /\ last' = [op |-> "save_2da", ok |-> ~result.raised, args |-> <<>>]
    /\ pc' = "saved"
    /\ hist' = [hist EXCEPT !.prev = disk, !.saves = @ + 1,
                            !.clean = IF hist.kinds = {} THEN @ + 1 ELSE 0]
    /\ UNCHANGED <<data, _header, _rows>>
    /\ mtime' = mtime + 1
    /\ UNCHANGED docVars

NextCodec == ScriptLoad \/ ScriptEditRow \/ ScriptEditHeader \/ ScriptSave

SpecCodec == InitCodec /\ [][NextCodec]_vars

\* ------------------------------------------------------------------
\* gui/table_model.py: TwoDATableModel (row and column arguments are the
\* 0-based indices of the Python code)
\* ------------------------------------------------------------------
clamp(x, lo, hi) == Max(lo, Min(x, hi))

\* make_empty_row
make_empty_row(header) == [i \in 1..Len(header) |-> <<>>]

\* extract_data: rows padded with the sentinel up to the header length
extract_rows(header, rows) ==
    [r \in 1..Len(rows) |-> pad_row(rows[r], Len(header), Sentinel)]

\* setData, the row after the edit: padded with "" first, then assigned
setData_row(header, row, c, new_text) ==
    [pad_row(row, Len(header), <<>>) EXCEPT ![c + 1] = new_text]

\* insertRows
insertRows_rows(header, rows, row, count) ==
    insert_run(rows, clamp(row, 0, Len(rows)),
               [i \in 1..count |-> make_empty_row(header)], 1)

\* variant whose slice stops one row early (del rows[row:last])
removeRows_rows_short_slice(rows, row, count) ==
    LET lastRow == Min(Len(rows) - 1, row + count - 1)
    IN list_del_slice(rows, row, lastRow)

\* removeRows
removeRows_rows(rows, row, count) ==
    LET lastRow == Min(Len(rows) - 1, row + count - 1)
    IN list_del_slice(rows, row, lastRow + 1)

\* insertColumns, the header
insertColumns_header(header, column, count) ==
    insert_run(header, clamp(column, 0, Len(header)), new_column_names(count), 1)

\* variant of insertColumns that does not normalize the rows first
insertColumns_rows_unnormalized(header, rows, column, count) ==
    LET col == clamp(column, 0, Len(header))
    IN [r \in 1..Len(rows) |->
           insert_run(rows[r], col, [i \in 1..count |-> Sentinel], 1)]

\* insertColumns, the rows (header is the header before the call, whose
\* length is the target_len of the code)
insertColumns_rows(header, rows, column, count) ==
    LET col == clamp(column, 0, Len(header))
        target_len == (Len(header) + count) - count
    IN [r \in 1..Len(rows) |->
           insert_run(pad_row(rows[r], target_len, Sentinel), col,
                      [i \in 1..count |-> Sentinel], 1)]

\* removeColumns, the header
removeColumns_header(header, column, count) ==
    LET lastCol == Min(Len(header) - 1, column + count - 1)
    IN list_del_slice(header, column, lastCol + 1)

\* removeColumns, the rows
removeColumns_rows(header, rows, column, count) ==
    LET lastCol == Min(Len(header) - 1, column + count - 1)
        new_len == Len(removeColumns_header(header, column, count))
    IN [r \in 1..Len(rows) |->
           pad_row(list_del_slice(rows[r], column, lastCol + 1), new_len, Sentinel)]

\* setData on the cell (r, c): the row is padded with "" first; a changed
\* text is stored and, unless suspended, announced by cellEdited(r, c, old, new)
setData_cell(header, rows, suspend, r, c, new_text) ==
    IF r < 0 \/ c < 0 \/ r >= Len(rows) \/ c >= Len(header)
    THEN [ok |-> FALSE, rows |-> rows, emitted |-> <<>>]
    ELSE LET old_text == pad_row(rows[r + 1], Len(header), <<>>)[c + 1]
         IN [ok |-> TRUE,
             rows |-> [rows EXCEPT ![r + 1] = setData_row(header, @, c, new_text)],
             emitted |-> IF new_text = old_text \/ suspend THEN <<>>
                         ELSE <<[row |-> r, col |-> c, old_text |-> old_text,
                                 new_text |-> new_text]>>]

\* variant of set_cell that leaves _suspend_edit_signal as it set it
set_cell_no_restore(header, rows, suspend, row, col, text, emit_edit_signal) ==
    IF ~(0 <= row /\ row < Len(rows)) \/ ~(0 <= col /\ col < Len(header))
    THEN [rows |-> rows, suspend |-> suspend, emitted |-> <<>>]
    ELSE LET res == setData_cell(header, rows, ~emit_edit_signal, row, col, text)
         IN [rows |-> res.rows, suspend |-> ~emit_edit_signal, emitted |-> res.emitted]

\* set_cell: setData under _suspend_edit_signal = not emit_edit_signal,
\* the previous value of the flag being restored on the way out
set_cell(header, rows, suspend, row, col, text, emit_edit_signal) ==
    IF ~(0 <= row /\ row < Len(rows)) \/ ~(0 <= col /\ col < Len(header))
    THEN [rows |-> rows, suspend |-> suspend, emitted |-> <<>>]
    ELSE LET prev == suspend
             res == setData_cell(header, rows, ~emit_edit_signal, row, col, text)
         IN [rows |-> res.rows, suspend |-> prev, emitted |-> res.emitted]

\* ------------------------------------------------------------------
\* QUndoStack as the document uses it (push, undo, redo, cleanChanged)
\* ------------------------------------------------------------------
isClean(stack) == stack.clean = stack.index

canUndo(stack) == stack.index > 0

canRedo(stack) == stack.index < Len(stack.cmds)

\* push: the commands above the index are dropped, the clean index is
\* lost if it was among them, the command is appended (its redo has run)
pushed(stack, cmd) ==
    [cmds |-> Append(SubSeq(stack.cmds, 1, stack.index), cmd),
     index |-> stack.index + 1,
     clean |-> IF stack.clean > stack.index THEN -1 ELSE stack.clean]

\* _on_clean_changed, run when cleanChanged is emitted: is_dirty = not clean
on_clean_changed(dirty, before, after) ==
    IF isClean(before) # isClean(after) THEN ~isClean(after) ELSE dirty

\* CellEditCommand(document, row, col, old_text, new_text)
CellEditCommand(sig) ==
    [kind |-> "cell", row |-> sig.row, col |-> sig.col,
     old_text |-> sig.old_text, new_text |-> sig.new_text]

\* ------------------------------------------------------------------
\* gui/document.py, gui/cell_edit_command.py: the undo commands.  redo and
\* undo map the table (header, rows) and the command to the table and the
\* command after the call; emitted are the cellEdited signals sent and
\* marked tells whether the command called _mark_dirty
\* ------------------------------------------------------------------
Outcome(header, rows, cmd, suspend, emitted, marked) ==
    [header |-> header, rows |-> rows, cmd |-> cmd, suspend |-> suspend,
     emitted |-> emitted, marked |-> marked]

InsertRowCommand(row, count) ==
    [kind |-> "insert_row", row |-> row, count |-> count, _did_redo |-> FALSE]

RemoveRowCommand(row, count) ==
    [kind |-> "remove_row", row |-> row, count |-> count, _removed_rows |-> <<>>]

DuplicateRowCommand(row) ==
    [kind |-> "duplicate_row", row |-> row, _copied |-> <<>>, _copied_set |-> FALSE,
     _insert_at |-> row + 1]

InsertColumnCommand(col, count) ==
    [kind |-> "insert_column", col |-> col, count |-> count, _did_redo |-> FALSE]

RemoveColumnCommand(col, count) ==
    [kind |-> "remove_column", col |-> col, count |-> count,
     _removed_header |-> <<>>, _removed_data |-> <<>>]

DuplicateColumnCommand(col) ==
    [kind |-> "duplicate_column", col |-> col, _copied_header |-> <<>>,
     _copied_data |-> <<>>, _copied_set |-> FALSE, _insert_at |-> col + 1]

\* s[a:b] of Python, 0 <= a
slice(s, a, b) == SubSeq(s, Min(a, Len(s)) + 1, Min(b, Len(s)))

\* model.insertRows / removeRows / insertColumns / removeColumns as the
\* commands call them: the table after the call
model_insertRows(header, rows, row, count) ==
    IF count <= 0 THEN rows ELSE insertRows_rows(header, rows, row, count)

model_removeRows(rows, row, count) ==
    IF count <= 0 \/ row < 0 \/ row >= Len(rows) THEN rows
    ELSE removeRows_rows(rows, row, count)

model_insertColumns(header, rows, column, count) ==
    IF count <= 0 THEN [header |-> header, rows |-> rows]
    ELSE [header |-> insertColumns_header(header, column, count),
          rows |-> insertColumns_rows(header, rows, column, count)]

model_removeColumns(header, rows, column, count) ==
    IF count <= 0 \/ column < 0 \/ column >= Len(header)
    THEN [header |-> header, rows |-> rows]
    ELSE [header |-> removeColumns_header(header, column, count),
          rows |-> removeColumns_rows(header, rows, column, count)]

\* RemoveRowCommand.redo
RemoveRowCommand_redo(cmd, header, rows) ==
    IF cmd.row < 0 \/ cmd.row >= Len(rows) \/ cmd.count <= 0
    THEN [header |-> header, rows |-> rows, cmd |-> [cmd EXCEPT !._removed_rows = <<>>]]
    ELSE [header |-> header,
          rows |-> model_removeRows(rows, cmd.row, cmd.count),
          cmd |-> [cmd EXCEPT !._removed_rows =
                      slice(rows, cmd.row, Min(Len(rows), cmd.row + cmd.count))]]

\* RemoveRowCommand.undo
RemoveRowCommand_undo(cmd, header, rows) ==
    IF cmd._removed_rows = <<>> THEN [header |-> header, rows |-> rows]
    ELSE [header |-> header,
          rows |-> insert_run(rows, clamp(cmd.row, 0, Len(rows)),
                              [i \in 1..Len(cmd._removed_rows) |->
                                  pad_row(cmd._removed_rows[i], Len(header), <<>>)], 1)]

\* DuplicateRowCommand.redo
DuplicateRowCommand_redo(cmd, header, rows) ==
    IF cmd.row < 0 \/ cmd.row >= Len(rows)
    THEN [header |-> header, rows |-> rows,
          cmd |-> [cmd EXCEPT !._copied = <<>>, !._copied_set = FALSE]]
    ELSE LET copied == pad_row(rows[cmd.row + 1], Len(header), <<>>)
         IN [header |-> header,
             rows |-> list_insert(rows, clamp(cmd._insert_at, 0, Len(rows)), copied),
             cmd |-> [cmd EXCEPT !._copied = copied, !._copied_set = TRUE]]

\* DuplicateRowCommand.undo
DuplicateRowCommand_undo(cmd, header, rows) ==
    IF ~cmd._copied_set THEN [header |-> header, rows |-> rows]
    ELSE [header |-> header,
          rows |-> model_removeRows(rows, clamp(cmd._insert_at, 0, Len(rows) - 1), 1)]

\* the cells a RemoveColumnCommand snapshots from one row
removed_cells(row, col, count) ==
    IF col < Len(row) THEN slice(row, col, Min(Len(row), col + count)) ELSE <<>>

\* RemoveColumnCommand.redo
RemoveColumnCommand_redo(cmd, header, rows) ==
    IF cmd.col < 0 \/ cmd.col >= Len(header) \/ cmd.count <= 0
    THEN [header |-> header, rows |-> rows,
          cmd |-> [cmd EXCEPT !._removed_header = <<>>, !._removed_data = <<>>]]
    ELSE LET after == model_removeColumns(header, rows, cmd.col, cmd.count)
         IN [header |-> after.header, rows |-> after.rows,
             cmd |-> [cmd EXCEPT
                        !._removed_header =
                            slice(header, cmd.col, Min(Len(header), cmd.col + cmd.count)),
                        !._removed_data =
                            [r \in 1..Len(rows) |->
                                removed_cells(rows[r], cmd.col, cmd.count)]]]

\* RemoveColumnCommand.undo
RemoveColumnCommand_undo(cmd, header, rows) ==
    IF cmd._removed_header = <<>> \/ cmd._removed_data = <<>>
    THEN [header |-> header, rows |-> rows]
    ELSE LET insert_at == clamp(cmd.col, 0, Len(header))
         IN [header |-> insert_run(header, insert_at, cmd._removed_header, 1),
             rows |-> [r \in 1..Len(rows) |->
                          IF r <= Len(cmd._removed_data)
                          THEN insert_run(rows[r], insert_at, cmd._removed_data[r], 1)
                          ELSE rows[r]]]

\* variant that reads the cell one column further right
copied_cell_next(row, col) == IF col + 1 < Len(row) THEN row[col + 2] ELSE <<>>

\* the cell a DuplicateColumnCommand copies from one row
copied_cell(row, col) == IF col < Len(row) THEN row[col + 1] ELSE <<>>

\* DuplicateColumnCommand.redo
DuplicateColumnCommand_redo(cmd, header, rows) ==
    IF cmd.col < 0 \/ cmd.col >= Len(header)
    THEN [header |-> header, rows |-> rows,
          cmd |-> [cmd EXCEPT !._copied_header = <<>>, !._copied_data = <<>>,
                              !._copied_set = FALSE]]
    ELSE LET insert_at == clamp(cmd._insert_at, 0, Len(header))
             copied_data == [r \in 1..Len(rows) |-> copied_cell(rows[r], cmd.col)]
         IN [header |-> list_insert(header, insert_at, header[cmd.col + 1]),
             rows |-> [r \in 1..Len(rows) |->
                          list_insert(rows[r], insert_at, copied_data[r])],
             cmd |-> [cmd EXCEPT !._copied_header = header[cmd.col + 1],
                                 !._copied_data = copied_data,
                                 !._copied_set = TRUE]]

\* DuplicateColumnCommand.undo
DuplicateColumnCommand_undo(cmd, header, rows) ==
    IF ~cmd._copied_set THEN [header |-> header, rows |-> rows]
    ELSE model_removeColumns(header, rows,
                             clamp(cmd._insert_at, 0, Len(header) - 1), 1)

\* QUndoCommand.redo of each command
cmd_redo(cmd, header, rows, suspend) ==
    CASE cmd.kind = "cell" ->
           LET res == set_cell(header, rows, suspend, cmd.row, cmd.col,
                               cmd.new_text, FALSE)
           IN Outcome(header, res.rows, cmd, res.suspend, res.emitted, TRUE)
      [] cmd.kind = "insert_row" ->
           Outcome(header, model_insertRows(header, rows, cmd.row, cmd.count),
                   [cmd EXCEPT !._did_redo = TRUE], suspend, <<>>, FALSE)
      [] cmd.kind = "remove_row" ->
           LET res == RemoveRowCommand_redo(cmd, header, rows)
           IN Outcome(res.header, res.rows, res.cmd, suspend, <<>>, FALSE)
      [] cmd.kind = "duplicate_row" ->
           LET res == DuplicateRowCommand_redo(cmd, header, rows)
           IN Outcome(res.header, res.rows, res.cmd, suspend, <<>>, FALSE)
      [] cmd.kind = "insert_column" ->
           LET res == model_insertColumns(header, rows, cmd.col, cmd.count)
           IN Outcome(res.header, res.rows, [cmd EXCEPT !._did_redo = TRUE],
                      suspend, <<>>, FALSE)
      [] cmd.kind = "remove_column" ->
           LET res == RemoveColumnCommand_redo(cmd, header, rows)
           IN Outcome(res.header, res.rows, res.cmd, suspend, <<>>, FALSE)
      [] cmd.kind = "duplicate_column" ->
           LET res == DuplicateColumnCommand_redo(cmd, header, rows)
           IN Outcome(res.header, res.rows, res.cmd, suspend, <<>>, FALSE)

\* QUndoCommand.undo of each command
cmd_undo(cmd, header, rows, suspend) ==
    CASE cmd.kind = "cell" ->
           LET res == set_cell(header, rows, suspend, cmd.row, cmd.col,
                               cmd.old_text, FALSE)
           IN Outcome(header, res.rows, cmd, res.suspend, res.emitted, TRUE)
      [] cmd.kind = "insert_row" ->
           Outcome(header,
                   IF cmd._did_redo THEN model_removeRows(rows, cmd.row, cmd.count)
                   ELSE rows,
                   cmd, suspend, <<>>, FALSE)
      [] cmd.kind = "remove_row" ->
           LET res == RemoveRowCommand_undo(cmd, header, rows)
           IN Outcome(res.header, res.rows, cmd, suspend, <<>>, FALSE)
      [] cmd.kind = "duplicate_row" ->
           LET res == DuplicateRowCommand_undo(cmd, header, rows)
           IN Outcome(res.header, res.rows, cmd, suspend, <<>>, FALSE)
      [] cmd.kind = "insert_column" ->
           LET res == IF cmd._did_redo
                      THEN model_removeColumns(header, rows, cmd.col, cmd.count)
                      ELSE [header |-> header, rows |-> rows]
           IN Outcome(res.header, res.rows, cmd, suspend, <<>>, FALSE)
      [] cmd.kind = "remove_column" ->
           LET res == RemoveColumnCommand_undo(cmd, header, rows)
           IN Outcome(res.header, res.rows, cmd, suspend, <<>>, FALSE)
      [] cmd.kind = "duplicate_column" ->
           LET res == DuplicateColumnCommand_undo(cmd, header, rows)
           IN Outcome(res.header, res.rows, cmd, suspend, <<>>, FALSE)

\* the slot connected to cellEdited pushes a CellEditCommand for the signal
deliver(stack, emitted) ==
    IF emitted = <<>> THEN stack ELSE pushed(stack, CellEditCommand(emitted[1]))

\* ------------------------------------------------------------------
\* The editor: one document opened from a file, edited through the table
\* model, saved through FileManager.save_file
\* ------------------------------------------------------------------
Init ==
    /\ disk \in GuiFiles
    /\ data = NoData
    /\ _header = <<>>
    /\ _rows = <<>>
    /\ pc = "start"
    /\ last = NoOp
    /\ hist = InitHist(disk)
    /\ InitDoc

\* every call is counted; the kind of a call that took effect is remembered
Logged(op, ok) ==
    [hist EXCEPT !.kinds = IF ok THEN @ \cup {op} ELSE @, !.nOps = @ + 1]

CanEdit == pc = "open" /\ hist.nOps < MaxOps

\* FileManager.create_document_from_path
OpenFile ==
    /\ pc = "start"
    /\ LET loaded == load_2da(disk)
       IN /\ loaded.ok
          /\ data' = loaded
          /\ _header' = <<<<>>>> \o loaded.header_fields
          /\ _rows' = loaded.row_fields
    /\ pc' = "open"
    /\ last' = [op |-> "open_file", ok |-> TRUE, args |-> <<>>]
    /\ _last_mtime' = mtime
    /\ UNCHANGED <<disk, hist, mtime, undo_stack, is_dirty, _suspend_edit_signal,
                   searchVars>>

\* A cell edited in the view: TwoDATableModel.setData on a valid index; a
\* changed text is announced by cellEdited, whose slot pushes a
\* CellEditCommand (push runs its redo: set_cell of the same text, then
\* _mark_dirty)
setData ==
    /\ CanEdit
    /\ \E r \in 0..(Len(_rows) - 1) : \E c \in 0..(Len(_header) - 1) :
       \E value \in CellValues :
       LET res == setData_cell(_header, _rows, _suspend_edit_signal, r, c, value)
           after == IF res.emitted = <<>> THEN undo_stack
                    ELSE pushed(undo_stack, CellEditCommand(res.emitted[1]))
       IN /\ _rows' = res.rows
          /\ undo_stack' = after
          /\ is_dirty' = IF res.emitted = <<>> THEN is_dirty
                         ELSE on_clean_changed(TRUE, undo_stack, after)
          /\ hist' = Logged("setData", TRUE)
    /\ last' = [op |-> "setData", ok |-> TRUE, args |-> <<>>]
    /\ UNCHANGED <<disk, data, _header, pc>>
    /\ UNCHANGED <<mtime, _last_mtime, _suspend_edit_signal, searchVars>>

\* TwoDATableModel.insertRows
insertRows ==
    /\ CanEdit
    /\ \E row \in (-1)..(Len(_rows) + 1) : \E count \in 0..MaxCount :
          /\ _rows' = IF count <= 0 THEN _rows
                      ELSE insertRows_rows(_header, _rows, row, count)
          /\ last' = [op |-> "insertRows", ok |-> count > 0, args |-> <<row, count>>]
          /\ hist' = Logged("insertRows", count > 0)
    /\ UNCHANGED <<disk, data, _header, pc>>
    /\ UNCHANGED <<mtime, docVars>>

\* TwoDATableModel.removeRows
removeRows ==
    /\ CanEdit
    /\ \E row \in (-1)..(Len(_rows) + 1) : \E count \in 0..MaxCount :
       LET ok == count > 0 /\ row >= 0 /\ row < Len(_rows)
       IN /\ _rows' = IF ok THEN removeRows_rows(_rows, row, count) ELSE _rows
          /\ last' = [op |-> "removeRows", ok |-> ok, args |-> <<row, count>>]
          /\ hist' = Logged("removeRows", ok)
    /\ UNCHANGED <<disk, data, _header, pc>>
    /\ UNCHANGED <<mtime, docVars>>

\* DuplicateRowCommand.redo
DuplicateRowRedo ==
    /\ CanEdit
    /\ \E row \in (-1)..Len(_rows) :
       LET ok == row >= 0 /\ row < Len(_rows)
       IN /\ _rows' = IF ok
                      THEN list_insert(_rows, clamp(row + 1, 0, Len(_rows)),
                                       pad_row(_rows[row + 1], Len(_header), <<>>))
                      ELSE _rows
          /\ last' = [op |-> "duplicate_row", ok |-> ok, args |-> <<row>>]
          /\ hist' = Logged("duplicate_row", ok)
    /\ UNCHANGED <<disk, data, _header, pc>>
    /\ UNCHANGED <<mtime, docVars>>

\* TwoDATableModel.insertColumns
insertColumns ==
    /\ CanEdit
    /\ \E column \in (-1)..(Len(_header) + 1) : \E count \in 0..MaxCount :
          /\ _header' = IF count <= 0 THEN _header
                        ELSE insertColumns_header(_header, column, count)
          /\ _rows' = IF count <= 0 THEN _rows
                      ELSE insertColumns_rows(_header, _rows, column, count)
          /\ last' = [op |-> "insertColumns", ok |-> count > 0, args |-> <<column, count>>]
          /\ hist' = Logged("insertColumns", count > 0)
    /\ UNCHANGED <<disk, data, pc>>
    /\ UNCHANGED <<mtime, docVars>>

\* TwoDATableModel.removeColumns
removeColumns ==
    /\ CanEdit
    /\ \E column \in (-1)..(Len(_header) + 1) : \E count \in 0..MaxCount :
       LET ok == count > 0 /\ column >= 0 /\ column < Len(_header)
       IN /\ _header' = IF ok THEN removeColumns_header(_header, column, count)
                        ELSE _header
          /\ _rows' = IF ok THEN removeColumns_rows(_header, _rows, column, count)
                      ELSE _rows
          /\ last' = [op |-> "removeColumns", ok |-> ok, args |-> <<column, count>>]
          /\ hist' = Logged("removeColumns", ok)
    /\ UNCHANGED <<disk, data, pc>>
    /\ UNCHANGED <<mtime, docVars>>

\* check_external_modification: the file exists and its modification time
\* is not the one recorded for the document
externally_modified == _last_mtime # NoMtime /\ mtime # _last_mtime

\* variant that records the new modification time only when the user
\* answers Yes
acknowledged_mtime_on_reload(res, last_mtime, current_mtime) ==
    IF res THEN current_mtime ELSE last_mtime

\* "acknowledge the external change in all cases": the time recorded
\* after the prompt, whatever the answer res
acknowledged_mtime(res, last_mtime, current_mtime) == current_mtime

\* check_external_modification once the file is found modified: the user
\* is asked whether to reload (res); on Yes the file is loaded into the
\* model and is_dirty cleared, unless load_2da raises; the modification
\* time is recorded
check_external_modification ==
    /\ \E res \in BOOLEAN :
          LET loaded == load_2da(disk)
          IN /\ IF res /\ loaded.ok
                THEN /\ data' = loaded
                     /\ _header' = <<<<>>>> \o loaded.header_fields
                     /\ _rows' = loaded.row_fields
                     /\ is_dirty' = FALSE
                ELSE UNCHANGED <<data, _header, _rows, is_dirty>>
             /\ _last_mtime' = acknowledged_mtime(res, _last_mtime, mtime)
    /\ UNCHANGED <<disk, mtime>>

\* FileManager.save_file.  If check_external_modification finds the file
\* modified, the user is asked whether to reload, the modification time is
\* recorded and nothing is saved.  Otherwise extract_data, then save_2da:
\* open(path, "wb") either raises (the path is not writable) and leaves the
\* file alone, or truncates the file; the lines are then encoded and
\* written one by one.
SaveFile ==
    /\ pc = "open"
    /\ hist.saves < MaxSessionSaves
    /\ IF externally_modified
       THEN /\ check_external_modification
            /\ last' = [op |-> "save_file_blocked", ok |-> FALSE, args |-> <<>>]
       ELSE /\ \E openOk \in BOOLEAN :
               LET handed == [data EXCEPT
                                 !.header_fields = SubSeq(_header, 2, Len(_header)),
                                 !.row_fields = extract_rows(_header, _rows)]
                   result == save_2da(handed)
                   saved == openOk /\ ~result.raised
               IN /\ data' = handed
                  /\ disk' = IF openOk THEN result.content ELSE disk
                  /\ mtime' = IF openOk THEN mtime + 1 ELSE mtime
                  /\ is_dirty' = IF saved THEN FALSE ELSE is_dirty
                  /\ _last_mtime' = IF saved THEN mtime + 1 ELSE _last_mtime
                  /\ last' = [op |-> "save_file", ok |-> saved, args |-> <<>>]
            /\ UNCHANGED <<_header, _rows>>
    /\ hist' = [hist EXCEPT !.prev = disk, !.saves = @ + 1]
    /\ UNCHANGED <<pc, undo_stack, _suspend_edit_signal, searchVars>>

Next ==
    \/ OpenFile
    \/ setData
    \/ insertRows
    \/ removeRows
    \/ DuplicateRowRedo
    \/ insertColumns
    \/ removeColumns
    \/ SaveFile

Spec == Init /\ [][Next]_vars

\* ------------------------------------------------------------------
\* The document session: cells edited in the view, the context-menu
\* handlers of TwoDADocument (each pushes its command on the undo stack),
\* undo and redo
\* ------------------------------------------------------------------
\* a session on one of the one-column files is given more commands
SessionOps == IF hist.orig \in ColumnFiles THEN MaxColumnOps ELSE MaxDocOps

CanCommand == pc = "open" /\ hist.nOps < SessionOps

\* a cell edited in the view (see setData)
edit_cell ==
    /\ CanCommand
    /\ \E r \in 0..(Len(_rows) - 1) : \E c \in 0..(Len(_header) - 1) :
       \E value \in CellValues :
       LET res == setData_cell(_header, _rows, _suspend_edit_signal, r, c, value)
           after == IF res.emitted = <<>> THEN undo_stack
                    ELSE pushed(undo_stack, CellEditCommand(res.emitted[1]))
       IN /\ _rows' = res.rows
          /\ undo_stack' = after
          /\ is_dirty' = IF res.emitted = <<>> THEN is_dirty
                         ELSE on_clean_changed(TRUE, undo_stack, after)
          /\ last' = [op |-> "edit_cell", ok |-> res.emitted # <<>>, args |-> <<r, c>>]
          /\ hist' = Logged("edit_cell", res.emitted # <<>>)
    /\ UNCHANGED <<disk, data, _header, pc>>
    /\ UNCHANGED <<mtime, _last_mtime, _suspend_edit_signal, searchVars>>

\* a handler that returns at once if its selection test fails and
\* otherwise runs undo_stack.push(cmd) and _mark_dirty()
Handler(op, ok, sel, cmd) ==
    /\ CanCommand
    /\ IF ok
       THEN LET out == cmd_redo(cmd, _header, _rows, _suspend_edit_signal)
            IN /\ _header' = out.header
               /\ _rows' = out.rows
               /\ _suspend_edit_signal' = out.suspend
               /\ undo_stack' = pushed(deliver(undo_stack, out.emitted), out.cmd)
               /\ is_dirty' = TRUE
       ELSE UNCHANGED <<_header, _rows, _suspend_edit_signal, undo_stack, is_dirty>>
    /\ last' = [op |-> op, ok |-> ok, args |-> <<sel>>]
    /\ hist' = Logged(op, ok)
    /\ UNCHANGED <<disk, data, pc, mtime, _last_mtime, searchVars>>

\* table.currentRow() / currentColumn(): -1 when no cell is current
CurrentRows == (-1)..(Len(_rows) - 1)
CurrentColumns == (-1)..(Len(_header) - 1)

insert_row_above ==
    \E row \in CurrentRows :
        Handler("insert_row_above", row >= 0, row, InsertRowCommand(row, 1))

insert_row_below ==
    \E row \in CurrentRows :
        Handler("insert_row_below", row >= 0, row, InsertRowCommand(row + 1, 1))

duplicate_row ==
    \E row \in CurrentRows :
        Handler("duplicate_row", row >= 0, row, DuplicateRowCommand(row))

delete_row ==
    \E row \in CurrentRows :
        Handler("delete_row", row >= 0, row, RemoveRowCommand(row, 1))

insert_column_left ==
    \E col \in CurrentColumns :
        Handler("insert_column_left", col >= 0, col, InsertColumnCommand(Max(1, col), 1))

insert_column_right ==
    \E col \in CurrentColumns :
        Handler("insert_column_right", col >= 0, col,
                InsertColumnCommand(Max(1, col + 1), 1))

duplicate_column ==
    \E col \in CurrentColumns :
        Handler("duplicate_column", ~(col < 0 \/ col = 0), col, DuplicateColumnCommand(col))

delete_column ==
    \E col \in CurrentColumns :
        Handler("delete_column", ~(col < 0 \/ col = 0), col, RemoveColumnCommand(col, 1))

\* undo_stack.undo(): the command below the index is undone, the index
\* moves down, cleanChanged is emitted if the clean state changed
Undo ==
    /\ pc = "open"
    /\ canUndo(undo_stack)
    /\ LET cmd == undo_stack.cmds[undo_stack.index]
           out == cmd_undo(cmd, _header, _rows, _suspend_edit_signal)
           after == [deliver(undo_stack, out.emitted) EXCEPT
                        !.index = undo_stack.index - 1]
       IN /\ _header' = out.header
          /\ _rows' = out.rows
          /\ _suspend_edit_signal' = out.suspend
          /\ undo_stack' = after
          /\ is_dirty' = on_clean_changed(out.marked \/ is_dirty, undo_stack, after)
          /\ last' = [op |-> "undo", ok |-> TRUE, args |-> <<Len(out.emitted)>>]
    /\ hist' = [hist EXCEPT !.kinds = @ \cup {"undo"}]
    /\ UNCHANGED <<disk, data, pc, mtime, _last_mtime, searchVars>>

\* undo_stack.redo(): the command above the index is redone, the index
\* moves up, cleanChanged is emitted if the clean state changed
Redo ==
    /\ pc = "open"
    /\ canRedo(undo_stack)
    /\ LET cmd == undo_stack.cmds[undo_stack.index + 1]
           out == cmd_redo(cmd, _header, _rows, _suspend_edit_signal)
           stack1 == deliver(undo_stack, out.emitted)
           after == IF out.emitted = <<>>
                    THEN [undo_stack EXCEPT !.cmds[undo_stack.index + 1] = out.cmd,
                                            !.index = undo_stack.index + 1]
                    ELSE [stack1 EXCEPT !.index = undo_stack.index + 1]
       IN /\ _header' = out.header
          /\ _rows' = out.rows
          /\ _suspend_edit_signal' = out.suspend
          /\ undo_stack' = after
          /\ is_dirty' = on_clean_changed(out.marked \/ is_dirty, undo_stack, after)
          /\ last' = [op |-> "redo", ok |-> TRUE, args |-> <<Len(out.emitted)>>]
    /\ hist' = [hist EXCEPT !.kinds = @ \cup {"redo"}]
    /\ UNCHANGED <<disk, data, pc, mtime, _last_mtime, searchVars>>

NextDoc ==
    \/ OpenFile
    \/ edit_cell
    \/ insert_row_above
    \/ insert_row_below
    \/ duplicate_row
    \/ delete_row
    \/ insert_column_left
    \/ insert_column_right
    \/ duplicate_column
    \/ delete_column
    \/ Undo
    \/ Redo

SpecDoc == Init /\ [][NextDoc]_vars

\* ------------------------------------------------------------------
\* A session with saves: cells edited, rows deleted, undo, redo and
\* FileManager.save_file
\* ------------------------------------------------------------------
NextDirty ==
    \/ OpenFile
    \/ edit_cell
    \/ delete_row
    \/ Undo
    \/ Redo
    \/ SaveFile

SpecDirty == Init /\ [][NextDirty]_vars

\* ------------------------------------------------------------------
\* A session whose file is also written by another program
\* ------------------------------------------------------------------
\* what the other program leaves in the file: a table, or nothing that
\* load_2da accepts
ExternalFiles ==
    {join_lines(<<DefaultVersion, <<>>, <<"A", SP, "B">>, <<"0", SP, "w", SP, "z">>>>,
                <<LF>>, TRUE),
     <<>>}

\* another program writes the file: its modification time advances
ExternalWrite ==
    /\ pc = "open"
    /\ mtime < hist.saves + MaxExternal
    /\ disk' \in ExternalFiles
    /\ mtime' = mtime + 1
    /\ last' = [op |-> "external_write", ok |-> TRUE, args |-> <<>>]
    /\ UNCHANGED <<data, _header, _rows, pc, hist, docVars>>

\* MainWindow.changeEvent: the window is activated while the file is
\* found modified (otherwise the check changes nothing)
changeEvent ==
    /\ pc = "open"
    /\ externally_modified
    /\ check_external_modification
    /\ last' = [op |-> "changeEvent", ok |-> TRUE, args |-> <<>>]
    /\ UNCHANGED <<pc, hist, undo_stack, _suspend_edit_signal, searchVars>>

NextExternal ==
    \/ OpenFile
    \/ delete_row
    \/ ExternalWrite
    \/ changeEvent
    \/ SaveFile

SpecExternal == Init /\ [][NextExternal]_vars

\* ------------------------------------------------------------------
\* gui/document.py: search and replace.  A pattern is a character class
\* such as [xy], kept as the sequence of its characters; a replacement is
\* a literal text
\* ------------------------------------------------------------------
\* SEARCHABLE_COL_START = 1: column 0 is not searched
SEARCHABLE_COL_START == 1

Patterns ==
    {<<"x">>, <<"y">>, <<"z">>, <<"w">>, <<"x", "y">>, <<"y", "w">>,
     <<"0", "1", "x", "y", "z", "w">>}

Replacements == {<<>>, <<"q">>}

in_class(regex, ch) == \E k \in 1..Len(regex) : regex[k] = ch

\* regex.search(cell): the position (from 1) of the first match, 0 if none
search(regex, cell) ==
    LET hits == {i \in 1..Len(cell) : in_class(regex, cell[i])}
    IN IF hits = {} THEN 0 ELSE CHOOSE i \in hits : \A j \in hits : i <= j

\* regex.sub(replacement, cell): every matching character replaced
RECURSIVE sub(_, _, _)
sub(regex, replacement, cell) ==
    IF cell = <<>> THEN <<>>
    ELSE (IF in_class(regex, cell[1]) THEN replacement ELSE <<cell[1]>>)
         \o sub(regex, replacement, Tail(cell))

\* cell[:match.start()] + replacement + cell[match.end():]
replace_first(regex, replacement, cell) ==
    LET m == search(regex, cell)
    IN SubSeq(cell, 1, m - 1) \o replacement \o SubSeq(cell, m + 1, Len(cell))

\* the matching cells (r, c) of the rows r of range R whose column c lies
\* between col_lo[r] and col_hi[r] and inside the row
matching_cells(rows, regex, R, col_lo, col_hi) ==
    UNION {{<<r, c>> : c \in {k \in col_lo[r]..Min(col_hi[r], Len(rows[r + 1]) - 1) :
                                 search(regex, rows[r + 1][k + 1]) # 0}} :
           r \in {q \in R : 0 <= q /\ q < Len(rows)}}

\* the first cell of a forward scan and of a backward scan
first_forward(cells) ==
    CHOOSE p \in cells : \A q \in cells :
        p[1] < q[1] \/ (p[1] = q[1] /\ p[2] <= q[2])

first_backward(cells) ==
    CHOOSE p \in cells : \A q \in cells :
        p[1] > q[1] \/ (p[1] = q[1] /\ p[2] >= q[2])

NoCell == [found |-> FALSE, row |-> -1, col |-> -1]

Cell(p) == [found |-> TRUE, row |-> p[1], col |-> p[2]]

\* find_next: the cell it selects, scanning forward from the cursor and
\* then from the top down to the cursor
find_next_cell(rows, regex, last_row, last_col) ==
    LET fresh == last_row < 0 \/ last_col < 0
        start_row == IF fresh THEN 0 ELSE last_row
        start_col == IF fresh THEN SEARCHABLE_COL_START ELSE last_col + 1
        R == 0..(Len(rows) - 1)
        scan == matching_cells(rows, regex, start_row..(Len(rows) - 1),
                    [r \in R |-> Max(SEARCHABLE_COL_START,
                                     IF r = start_row THEN start_col
                                     ELSE SEARCHABLE_COL_START)],
                    [r \in R |-> Len(rows[r + 1]) - 1])
        wrap == matching_cells(rows, regex, 0..(Min(start_row + 1, Len(rows)) - 1),
                    [r \in R |-> SEARCHABLE_COL_START],
                    [r \in R |-> Max(SEARCHABLE_COL_START,
                                     IF r = start_row THEN start_col
                                     ELSE Len(rows[r + 1])) - 1])
    IN IF scan # {} THEN Cell(first_forward(scan))
       ELSE IF wrap # {} THEN Cell(first_forward(wrap))
       ELSE NoCell

\* find_previous: the cell it selects, scanning backward from the cursor
\* and then from the bottom up to the cursor's row
find_previous_cell(rows, regex, last_row, last_col) ==
    IF rows = <<>> THEN NoCell
    ELSE
    LET fresh == last_row < 0 \/ last_col < 0
        start_row == IF fresh THEN Len(rows) - 1 ELSE last_row
        start_col == IF fresh THEN Len(rows[start_row + 1]) - 1 ELSE last_col - 1
        R == 0..(Len(rows) - 1)
        scan == matching_cells(rows, regex, 0..start_row,
                    [r \in R |-> SEARCHABLE_COL_START],
                    [r \in R |-> IF r = start_row THEN start_col
                                 ELSE Len(rows[r + 1]) - 1])
        wrap == matching_cells(rows, regex, start_row..(Len(rows) - 1),
                    [r \in R |-> SEARCHABLE_COL_START],
                    [r \in R |-> IF r # start_row THEN Len(rows[r + 1]) - 1
                                 ELSE start_col])
    IN IF scan # {} THEN Cell(first_backward(scan))
       ELSE IF wrap # {} THEN Cell(first_backward(wrap))
       ELSE NoCell

\* variant that visits every column of the row
replaced_columns_all(row) == 0..(Len(row) - 1)

\* "for c in range(SEARCHABLE_COL_START, len(row))" of replace_all
replaced_columns(row) == SEARCHABLE_COL_START..(Len(row) - 1)

\* replace_all on one row: every searched cell that the substitution
\* changes is set through set_cell, which ignores the columns past the
\* header; the first setData on the row pads it with ""
replace_all_row(header, row, regex, replacement) ==
    LET new_value(c) == sub(regex, replacement, row[c + 1])
        changed == {c \in replaced_columns(row) :
                       search(regex, row[c + 1]) # 0 /\ new_value(c) # row[c + 1]}
        stored == {c \in changed : c < Len(header)}
        padded == IF stored = {} THEN row ELSE pad_row(row, Len(header), <<>>)
    IN [row |-> [k \in 1..Len(padded) |->
                    IF (k - 1) \in stored THEN new_value(k - 1) ELSE padded[k]],
        modified |-> changed # {}]

\* set_search_pattern(regex)
set_search_pattern ==
    /\ pc = "open"
    /\ \E regex \in Patterns : _search_regex' = regex
    /\ _search_last_row' = -1
    /\ _search_last_col' = -1
    /\ last' = [op |-> "set_search_pattern", ok |-> TRUE, args |-> <<>>]
    /\ UNCHANGED <<disk, data, _header, _rows, pc, hist, mtime, undo_stack, is_dirty,
                   _last_mtime, _suspend_edit_signal>>

\* a find call with a pattern set: the cell found becomes the cursor and
\* the current cell of the view; nothing changes if no cell is found
Selected(op, res) ==
    /\ pc = "open"
    /\ _search_regex # NoRegex
    /\ _search_last_row' = IF res.found THEN res.row ELSE _search_last_row
    /\ _search_last_col' = IF res.found THEN res.col ELSE _search_last_col
    /\ last' = IF res.found
               THEN [op |-> op, ok |-> TRUE, args |-> <<res.row, res.col>>]
               ELSE last
    /\ UNCHANGED <<disk, data, _header, _rows, pc, hist, mtime, undo_stack, is_dirty,
                   _last_mtime, _suspend_edit_signal, _search_regex>>

find_next ==
    Selected("find_next",
             find_next_cell(_rows, _search_regex, _search_last_row, _search_last_col))

find_previous ==
    Selected("find_previous",
             find_previous_cell(_rows, _search_regex, _search_last_row, _search_last_col))

\* replace_current(replacement): the first match of the cursor's cell is
\* replaced through set_cell, whose cellEdited pushes a CellEditCommand
replace_current ==
    /\ CanCommand
    /\ \E replacement \in Replacements :
       LET r == _search_last_row
           c == _search_last_col
           ok == /\ ~(r < 0 \/ c < 0)
                 /\ ~(c < SEARCHABLE_COL_START)
                 /\ _search_regex # NoRegex
                 /\ r < Len(_rows) /\ c < Len(_rows[r + 1])
                 /\ search(_search_regex, _rows[r + 1][c + 1]) # 0
           res == set_cell(_header, _rows, _suspend_edit_signal, r, c,
                           replace_first(_search_regex, replacement, _rows[r + 1][c + 1]),
                           TRUE)
       IN /\ IF ok
             THEN /\ _rows' = res.rows
                  /\ _suspend_edit_signal' = res.suspend
                  /\ undo_stack' = deliver(undo_stack, res.emitted)
                  /\ is_dirty' = TRUE
             ELSE UNCHANGED <<_rows, _suspend_edit_signal, undo_stack, is_dirty>>
          /\ last' = [op |-> "replace_current", ok |-> ok, args |-> <<r, c>>]
          /\ hist' = Logged("replace_current", ok)
    /\ UNCHANGED <<disk, data, _header, pc, mtime, _last_mtime, searchVars>>

\* replace_all(regex, replacement)
replace_all ==
    /\ CanCommand
    /\ \E regex \in Patterns : \E replacement \in Replacements :
       LET res == [r \in 1..Len(_rows) |->
                      replace_all_row(_header, _rows[r], regex, replacement)]
           modified == \E r \in 1..Len(_rows) : res[r].modified
       IN /\ _rows' = [r \in 1..Len(_rows) |-> res[r].row]
          /\ is_dirty' = (modified \/ is_dirty)
          /\ last' = [op |-> "replace_all", ok |-> modified, args |-> <<>>]
          /\ hist' = Logged("replace_all", modified)
    /\ UNCHANGED <<disk, data, _header, pc, mtime, undo_stack, _last_mtime,
                   _suspend_edit_signal, searchVars>>

NextSearch ==
    \/ OpenFile
    \/ set_search_pattern
    \/ find_next
    \/ find_previous
    \/ replace_current
    \/ replace_all

SpecSearch == Init /\ [][NextSearch]_vars

\* ------------------------------------------------------------------
\* Repeated find_previous: the table is not edited, the pattern is set
\* once, the first match may be taken with find_next, and find_previous is
\* called again and again (weak fairness)
\* ------------------------------------------------------------------
NextFindPrevious ==
    \/ OpenFile
    \/ (_search_regex = NoRegex /\ set_search_pattern)
    \/ (_search_last_row < 0 /\ find_next)
    \/ find_previous

SpecFindPrevious == Init /\ [][NextFindPrevious]_vars /\ WF_vars(find_previous)

\* ------------------------------------------------------------------
\* A session of column commands only, undone and redone
\* ------------------------------------------------------------------
InitColumns ==
    /\ disk \in ColumnFiles
    /\ data = NoData
    /\ _header = <<>>
    /\ _rows = <<>>
    /\ pc = "start"
    /\ last = NoOp
    /\ hist = InitHist(disk)
    /\ InitDoc

NextColumns ==
    \/ OpenFile
    \/ insert_column_left
    \/ insert_column_right
    \/ duplicate_column
    \/ delete_column
    \/ Undo
    \/ Redo

SpecColumns == InitColumns /\ [][NextColumns]_vars

\* ------------------------------------------------------------------
\* Properties of the codec scripts
\* ------------------------------------------------------------------
\* the first line of the original file is a version line
OrigStartsWithVersion ==
    LET lines == splitlines(IF contains_crlf(hist.orig)
                            THEN replace_crlf(hist.orig) ELSE hist.orig)
    IN lines # <<>> /\ startswith_2DA(strip(lines[1]))

\* the state right after the first save of an unmodified load
FirstCleanSave ==
    pc = "saved" /\ hist.saves = 1 /\ hist.clean = 1

\* C1: load_2da followed by save_2da with no edit in between writes bytes
\* identical to the original file, for every loadable file whose first line
\* is a version line.
C1_ByteRoundTrip ==
    (FirstCleanSave /\ OrigStartsWithVersion) => disk = hist.orig

\* C2: the output of an unedited load/save, loaded and saved again without
\* an edit, is byte-identical to that first output.
C2_IdempotentReformat ==
    (pc = "saved" /\ hist.clean >= 2) => disk = hist.prev

\* C2 witness: a second unedited save has been made of a file that the first
\* save had reformatted.
C2_Witness ==
    pc = "saved" /\ hist.clean >= 2 /\ hist.prev # hist.orig

\* the lines of the file now on disk
SavedLines == splitlines(IF contains_crlf(disk) THEN replace_crlf(disk) ELSE disk)

\* the saved header line and the saved line of row k
SavedHeaderLine == SavedLines[2 + data.empty_lines_before_header]
SavedRowLine(k) == SavedLines[2 + data.empty_lines_before_header + k]

\* C3: after one row field was replaced by a non-empty, whitespace-free
\* value of any length, saving and loading the output returns header and
\* row fields equal to the document's fields at save time.
C3_EditRoundTrip ==
    (pc = "saved" /\ hist.kinds = {"row"}) =>
        LET reloaded == load_2da(disk)
        IN /\ reloaded.ok
           /\ reloaded.header_fields = data.header_fields
           /\ reloaded.row_fields = data.row_fields

\* C3 witness: a saved document in which one row field was replaced by a
\* value longer than the token it replaced.
C3_Witness ==
    /\ pc = "saved"
    /\ hist.kinds = {"row"}
    /\ \E r \in 1..Len(data.row_fields) : \E c \in 1..Len(data.row_fields[r]) :
          /\ data.row_fields[r][c] = LongValue
          /\ orig_width(data.row_formats[r], c) < Len(LongValue)

\* field i of fields is the n-th non-empty one; it is emitted in full when
\* the n-th token of the written line is exactly that value
EmittedInFull(line, fields, i) ==
    LET n == Cardinality({j \in 1..i : fields[j] # <<>>})
        toks == parse_raw_line(line).fields
    IN n <= Len(toks) /\ toks[n] = fields[i]

\* field i of fields is longer than the token it had in the loaded line
LongerThanSpan(fmt, fields, i) ==
    i <= Len(fmt.spans) /\ Len(fields[i]) > orig_width(fmt, i)

\* C4: every header or row field value longer than its original token span
\* (the resolved width is never smaller than the value) is written in full
\* by save_2da.
C4_NoTruncation ==
    pc = "saved" =>
        /\ \A i \in 1..Len(data.header_fields) :
              LongerThanSpan(data.header_format, data.header_fields, i)
                  => EmittedInFull(SavedHeaderLine, data.header_fields, i)
        /\ \A k \in 1..Min(Len(data.row_fields), Len(data.row_formats)) :
           \A i \in 1..Len(data.row_fields[k]) :
              LongerThanSpan(data.row_formats[k], data.row_fields[k], i)
                  => EmittedInFull(SavedRowLine(k), data.row_fields[k], i)

\* C4 witness: a saved document whose header holds a value longer than the
\* token it replaced.
C4_Witness ==
    /\ pc = "saved"
    /\ \E i \in 1..Len(data.header_fields) :
          LongerThanSpan(data.header_format, data.header_fields, i)

\* ------------------------------------------------------------------
\* Properties of the editor
\* ------------------------------------------------------------------
\* what load_2da returned for the file as it was opened
Opened == load_2da(hist.orig)

\* every row of the opened file had one token more than the header
WellFormedAtLoad ==
    \A r \in 1..Len(Opened.row_fields) :
        Len(Opened.row_fields[r]) = Len(Opened.header_fields) + 1

\* save_file has just returned without an error
JustSaved == last.op = "save_file" /\ last.ok

\* C5: a data cell (row position >= 1) set to the empty string is "****"
\* after save and reload, and every other cell of its row is still at its
\* position.
C5_SentinelRoundTrip ==
    (JustSaved /\ hist.kinds = {"setData"} /\ WellFormedAtLoad) =>
        LET reloaded == load_2da(disk)
        IN \A r \in 1..Len(_rows) : \A c \in 2..Len(_rows[r]) :
              _rows[r][c] = <<>> =>
                  /\ reloaded.ok
                  /\ r <= Len(reloaded.row_fields)
                  /\ Len(reloaded.row_fields[r]) = Len(_rows[r])
                  /\ reloaded.row_fields[r][c] = Sentinel
                  /\ \A d \in 1..Len(_rows[r]) :
                        _rows[r][d] # <<>> => reloaded.row_fields[r][d] = _rows[r][d]

\* C6: one column inserted at a position other than the index column puts
\* "NewColumn" in the header and "****" in every row at that position, and
\* save followed by reload reproduces exactly these header and row values.
C6_InsertColumnRoundTrip ==
    (/\ JustSaved
     /\ hist.kinds = {"insertColumns"}
     /\ hist.nOps = 1
     /\ WellFormedAtLoad
     /\ _rows # <<>>
     /\ Len(_header) = Len(Opened.header_fields) + 2
     /\ _header[1] = <<>>) =>
        LET reloaded == load_2da(disk)
        IN /\ \E p \in 1..Len(Opened.header_fields) + 1 :
                 /\ _header = list_insert(<<<<>>>> \o Opened.header_fields, p, NewColumnName)
                 /\ \A r \in 1..Len(_rows) :
                       _rows[r] = list_insert(Opened.row_fields[r], p, Sentinel)
           /\ reloaded.ok
           /\ reloaded.header_fields = SubSeq(_header, 2, Len(_header))
           /\ reloaded.row_fields = _rows

RowOps == {"insertRows", "removeRows", "duplicate_row"}

\* C7: after row insertions, duplications and removals, save_2da writes
\* exactly one data line per current row.
C7_OneLinePerRow ==
    (/\ JustSaved
     /\ Opened.row_fields # <<>>
     /\ WellFormedAtLoad
     /\ hist.kinds # {}
     /\ hist.kinds \subseteq RowOps) =>
        Len(SavedLines) = 2 + data.empty_lines_before_header + Len(_rows)

\* C8: when the save fails, the file at the destination still has the
\* content it had before the call.
C8_FailedSaveKeepsFile ==
    (last.op = "save_file" /\ ~last.ok) => disk = hist.prev

\* C9: from a table in which no row is longer than the model header, a
\* call of insertColumns or removeColumns that is carried out leaves every
\* row exactly as long as the model header.
C9_ShapeInvariant ==
    [][(/\ last'.op \in {"insertColumns", "removeColumns"}
        /\ last'.ok
        /\ \A r \in 1..Len(_rows) : Len(_rows[r]) <= Len(_header))
       => \A r \in 1..Len(_rows') : Len(_rows'[r]) = Len(_header')]_vars

\* C9 witness: a column call carried out on a freshly opened table that had
\* a row shorter than the header; every row now has the header's length.
C9_Witness ==
    /\ last.op \in {"insertColumns", "removeColumns"}
    /\ last.ok
    /\ hist.nOps = 1
    /\ \A r \in 1..Len(Opened.row_fields) :
          Len(Opened.row_fields[r]) <= Len(Opened.header_fields) + 1
    /\ \E r \in 1..Len(Opened.row_fields) :
          Len(Opened.row_fields[r]) < Len(Opened.header_fields) + 1
    /\ \A r \in 1..Len(_rows) : Len(_rows[r]) = Len(_header)

\* C10: every row handed to save_2da by save_file has exactly one field
\* more than the header field list.
C10_RowsHandedAreRectangular ==
    last.op = "save_file" =>
        \A r \in 1..Len(data.row_fields) :
            Len(data.row_fields[r]) = Len(data.header_fields) + 1

\* ------------------------------------------------------------------
\* Column widths and alignment
\* ------------------------------------------------------------------
\* the longest value the rows hold at position i (1-based), 0 if none
LongestRowValue(rows, i) ==
    SetMax({0} \cup {Len(rows[r][i]) : r \in {q \in 1..Len(rows) : i <= Len(rows[q])}})

\* C11: the width calculate_column_widths returns for a column is at least
\* the length of the column's header label and of the longest row value of
\* the column, in the header vector (column j against row position j + 1)
\* and in the row vector (position i > 0 against header label i - 1), also
\* with short rows or no rows.
C11_WidthMonotonicity ==
    pc = "saved" =>
        LET w == calculate_column_widths(data)
            header == data.header_fields
            rows == data.row_fields
        IN /\ \A j \in 1..Len(header) :
                 /\ j <= Len(w.header_widths)
                 /\ w.header_widths[j] >= Len(header[j])
                 /\ w.header_widths[j] >= LongestRowValue(rows, j + 1)
           /\ \A i \in 2..(Len(header) + 1) :
                 /\ i <= Len(w.data_widths)
                 /\ w.data_widths[i] >= Len(header[i - 1])
                 /\ w.data_widths[i] >= LongestRowValue(rows, i)

\* 0-based offset at which token n of a written line starts
TokenStart(line, n) == parse_raw_line(line).spans[n][1]

\* the value at position c of row r is longer than the column's header
\* label and than the value every other row holds at that position
GrownBeyondColumn(r, c) ==
    /\ _rows[r][c] # Opened.row_fields[r][c]
    /\ Len(_rows[r][c]) > Len(_header[c])
    /\ \A k \in 1..Len(_rows) :
          k # r => (c <= Len(_rows[k]) /\ Len(_rows[k][c]) < Len(_rows[r][c]))

\* C12: when one row's value in a column has grown to a length L greater
\* than the header label and every other value of the column, the resolved
\* width of the column is L and, in the saved file, every other row's value
\* in that column is padded to L characters: the following column starts at
\* the same offset in every row.
C12_GrownValuePadsColumn ==
    (JustSaved /\ hist.kinds = {"setData"} /\ WellFormedAtLoad /\ Len(_rows) >= 2) =>
        \A r \in 1..Len(_rows) : \A c \in 2..(Len(_rows[r]) - 1) :
            GrownBeyondColumn(r, c) =>
                /\ calculate_column_widths(data).data_widths[c] = Len(_rows[r][c])
                /\ \A k \in 1..Len(_rows) :
                      /\ Len(parse_raw_line(SavedRowLine(k)).spans) = Len(_rows[k])
                      /\ TokenStart(SavedRowLine(k), c + 1) - TokenStart(SavedRowLine(k), c)
                            >= Len(_rows[r][c]) + 1
                      /\ TokenStart(SavedRowLine(k), c + 1) = TokenStart(SavedRowLine(r), c + 1)

\* ------------------------------------------------------------------
\* Line terminators
\* ------------------------------------------------------------------
\* number of occurrences of the character c in the text t
CountChar(t, c) == Cardinality({p \in 1..Len(t) : t[p] = c})

\* the bytes load_2da read for the data just saved contain "\r\n"
LoadedWithCrlf == contains_crlf(hist.prev)

\* C13: every line save_2da writes (version line, blank lines, header,
\* rows) ends with the terminator detected at load: "\r\n" if the loaded
\* bytes contain it, "\n" otherwise; the two are never mixed.
C13_TerminatorReproduced ==
    pc = "saved" =>
        /\ disk # <<>> /\ disk[Len(disk)] = LF
        /\ CountChar(disk, LF) =
              2 + data.empty_lines_before_header + Len(data.row_fields)
        /\ \A p \in 1..Len(disk) :
              /\ disk[p] = LF => (LoadedWithCrlf <=> (p > 1 /\ disk[p - 1] = CR))
              /\ disk[p] = CR => (p < Len(disk) /\ disk[p + 1] = LF)

\* C13 witness: a file read with "\r\n" was saved with a blank line and a
\* row, and the bytes written contain "\r\n".
C13_Witness ==
    /\ pc = "saved"
    /\ LoadedWithCrlf
    /\ contains_crlf(disk)
    /\ data.empty_lines_before_header >= 1
    /\ Len(data.row_fields) >= 1

\* ------------------------------------------------------------------
\* Structural operations of the table model
\* ------------------------------------------------------------------
\* the call op(args) addresses an index or a range outside the table whose
\* header is header and whose rows are rows
OutOfBounds(op, args, header, rows) ==
    \/ op = "insertRows" /\ args[2] > 0 /\ (args[1] < 0 \/ args[1] > Len(rows))
    \/ op = "removeRows" /\ args[2] > 0 /\ (args[1] < 0 \/ args[1] + args[2] > Len(rows))
    \/ op = "duplicate_row" /\ (args[1] < 0 \/ args[1] >= Len(rows))
    \/ op = "insertColumns" /\ args[2] > 0 /\ (args[1] < 0 \/ args[1] > Len(header))
    \/ op = "removeColumns" /\ args[2] > 0
          /\ (args[1] < 0 \/ args[1] + args[2] > Len(header))

\* C14: a structural operation called with an out-of-bounds index or range
\* fails and leaves the header and every row unmodified; it never clamps
\* the index and proceeds.
C14_OutOfBoundsRejected ==
    [][OutOfBounds(last'.op, last'.args, _header, _rows)
       => (~last'.ok /\ _header' = _header /\ _rows' = _rows)]_vars

\* ------------------------------------------------------------------
\* Saving and loading: refusals and the version line
\* ------------------------------------------------------------------
\* C15: saving a document whose header field list is empty is refused with
\* an error and nothing is written: the file keeps the content it had.
C15_EmptyHeaderSaveRefused ==
    (last.op = "save_file" /\ _header = <<<<>>>> /\ data.header_fields = <<>>) =>
        (~last.ok /\ disk = hist.prev)

DecimalDigits == {"0", "1", "2", "3", "4", "5", "6", "7", "8", "9"}

\* the line has the shape 2DA V<major>.<minor> (one digit each, which is
\* all the input files hold)
IsVersionTag(line) ==
    LET s == strip(line)
    IN /\ Len(s) = 8
       /\ SubSeq(s, 1, 5) = <<"2", "D", "A", " ", "V">>
       /\ s[6] \in DecimalDigits /\ s[7] = "." /\ s[8] \in DecimalDigits

\* the non-blank lines of the file, in order
RECURSIVE NonBlank(_)
NonBlank(lines) ==
    IF lines = <<>> THEN <<>>
    ELSE IF strip(lines[1]) = <<>> THEN NonBlank(Tail(lines))
    ELSE <<lines[1]>> \o NonBlank(Tail(lines))

\* the script has loaded the original file and done nothing else
FreshlyLoaded == pc = "loaded" /\ hist.saves = 0 /\ hist.kinds = {}

\* C16: if the first non-blank line of the file has the version-tag shape,
\* load_2da takes it as the version label and it becomes neither the header
\* nor a row, also when blank lines precede it; otherwise the label is
\* "2DA V2.0", no line is consumed and that line becomes the header.
C16_VersionLineConsumed ==
    FreshlyLoaded =>
        LET nb == NonBlank(splitlines(IF contains_crlf(disk)
                                      THEN replace_crlf(disk) ELSE disk))
        IN IF IsVersionTag(nb[1])
           THEN /\ data.version_line = strip(nb[1])
                /\ data.header_fields = parse_raw_line(nb[2]).fields
                /\ Len(data.row_fields) = Len(nb) - 2
           ELSE /\ data.version_line = DefaultVersion
                /\ data.header_fields = parse_raw_line(nb[1]).fields
                /\ Len(data.row_fields) = Len(nb) - 1

\* the whitespace that precedes the first token of a line
LeadingWhitespace(line) == SubSeq(line, 1, Len(line) - Len(lstrip(line)))

\* C17: on every save, each header and row line starts with exactly the
\* whitespace that preceded its first token in the loaded file, whether or
\* not a field of the line was edited.
C17_IndentationKept ==
    pc = "saved" =>
        /\ LeadingWhitespace(SavedHeaderLine) = LeadingWhitespace(data.header_format.raw)
        /\ \A k \in 1..Len(data.row_formats) :
              LeadingWhitespace(SavedRowLine(k)) = LeadingWhitespace(data.row_formats[k].raw)

\* ------------------------------------------------------------------
\* Row operations
\* ------------------------------------------------------------------
\* C18: InsertRow(at) with 0 <= at <= rowCount inserts at position at one
\* row of header-column-count + 1 fields, each equal to "****"; the rows
\* before at stay, the rows from at on move down by one, and no existing
\* field value changes.
C18_InsertRowSentinels ==
    [][(/\ last'.op = "insertRows"
        /\ last'.args[2] = 1
        /\ last'.args[1] \in 0..Len(_rows))
       => /\ last'.ok
          /\ _header' = _header
          /\ _rows' = SubSeq(_rows, 1, last'.args[1])
                      \o <<[i \in 1..Len(_header) |-> Sentinel]>>
                      \o SubSeq(_rows, last'.args[1] + 1, Len(_rows))]_vars

\* C19: RemoveRow(at, count) with a valid range removes exactly the rows
\* at..at+count-1: the row count drops by count, and every remaining row
\* keeps all its field values (the index field included) and its relative
\* order, the former row at+count being now at index at.
C19_RemoveRowExact ==
    [][(/\ last'.op = "removeRows"
        /\ last'.args[2] > 0
        /\ last'.args[1] >= 0
        /\ last'.args[1] + last'.args[2] <= Len(_rows))
       => LET at == last'.args[1]
              count == last'.args[2]
          IN /\ last'.ok
             /\ _header' = _header
             /\ Len(_rows') = Len(_rows) - count
             /\ \A k \in 1..Len(_rows') :
                   _rows'[k] = IF k <= at THEN _rows[k] ELSE _rows[k + count]]_vars

\* C19 witness: row 0 of a two-row table was removed; the former row 1 is
\* now row 0 and still carries its own index field.
C19_Witness ==
    /\ last.op = "removeRows"
    /\ last.ok
    /\ last.args = <<0, 1>>
    /\ hist.nOps = 1
    /\ Len(Opened.row_fields) = 2
    /\ _rows = <<Opened.row_fields[2]>>
    /\ _rows[1][1] = <<"1">>

\* C20: DuplicateRow(at) on a valid row inserts at position at + 1 a row
\* equal to row at field for field, whatever the length of the row; every
\* other row is unchanged.
C20_DuplicateRowExact ==
    [][(/\ last'.op = "duplicate_row"
        /\ last'.args[1] \in 0..(Len(_rows) - 1))
       => LET at == last'.args[1]
          IN /\ last'.ok
             /\ _header' = _header
             /\ _rows' = SubSeq(_rows, 1, at + 1)
                         \o <<_rows[at + 1]>>
                         \o SubSeq(_rows, at + 2, Len(_rows))]_vars

\* ------------------------------------------------------------------
\* Column commands and undo
\* ------------------------------------------------------------------
\* TwoDATableModel.data: the text of column c in a row, "" past its end
cell_text(row, c) == IF c < Len(row) THEN row[c + 1] ELSE <<>>

BlankRunAfterFirstLine(f) ==
    LET lines == splitlines(IF contains_crlf(f) THEN replace_crlf(f) ELSE f)
    IN Cardinality({n \in 1..(Len(lines) - 1) :
                       \A i \in 2..(n + 1) : strip(lines[i]) = <<>>})

\* C23: a file whose first line is the version line is saved with as many
\* blank lines between the version line and the header as it had when it
\* was loaded, whatever that number is (none included).
C23_BlankLinesKept ==
    (pc = "saved" /\ OrigStartsWithVersion) =>
        BlankRunAfterFirstLine(disk) = BlankRunAfterFirstLine(hist.orig)

\* C23 witness: a file with a blank line after its version line was loaded
\* and saved, and the saved file has a blank line there.
C23_Witness ==
    /\ pc = "saved"
    /\ OrigStartsWithVersion
    /\ BlankRunAfterFirstLine(hist.orig) >= 1
    /\ BlankRunAfterFirstLine(disk) >= 1
    /\ data.empty_lines_before_header >= 1

\* ------------------------------------------------------------------
\* Undo of the removal commands
\* ------------------------------------------------------------------
\* the step undoes the command that the handler op has just pushed as the
\* first command of the session, so the table before the command's redo is
\* the table as opened
UndoesFirst(op) ==
    /\ last.op = op
    /\ last.ok
    /\ hist.nOps = 1
    /\ last'.op = "undo"

\* C24: RemoveRowCommand.redo followed by its undo leaves the rows exactly
\* as they were before the redo: as many rows, in the same order, each with
\* the same number of fields and the same values, whatever the rows' lengths.
C24_RemoveRowUndoExact ==
    [][UndoesFirst("delete_row") => _rows' = Opened.row_fields]_vars

\* C25: RemoveColumnCommand.redo followed by its undo leaves the header and
\* every row exactly as they were before the redo, also in a table without
\* rows or with rows shorter than the header.
C25_RemoveColumnUndoExact ==
    [][UndoesFirst("delete_column")
       => /\ _header' = <<<<>>>> \o Opened.header_fields
          /\ _rows' = Opened.row_fields]_vars

\* ------------------------------------------------------------------
\* Undo and redo of a cell edit
\* ------------------------------------------------------------------
\* the step runs cmd.undo() or cmd.redo() of the CellEditCommand cmd, which
\* sets its cell to text: the cell has the text, cellEdited was not emitted,
\* the stack holds the same commands with the index moved to index, and
\* _suspend_edit_signal is as before and off
CellCommandRan(cmd, text, index) ==
    /\ (cmd.row < Len(_rows) /\ cmd.col < Len(_header))
          => cell_text(_rows'[cmd.row + 1], cmd.col) = text
    /\ last'.args = <<0>>
    /\ undo_stack'.cmds = undo_stack.cmds
    /\ undo_stack'.index = index
    /\ _suspend_edit_signal' = _suspend_edit_signal
    /\ _suspend_edit_signal' = FALSE

\* C26: undo (redo) of a cell edit sets the cell to the old (new) text
\* without emitting cellEdited, so no command is pushed while the command
\* runs and the commands above the index stay; set_cell leaves
\* _suspend_edit_signal as it found it, so later edits are announced again.
C26_CellUndoRedoSilent ==
    [][/\ (last'.op = "undo" /\ undo_stack.cmds[undo_stack.index].kind = "cell")
          => CellCommandRan(undo_stack.cmds[undo_stack.index],
                            undo_stack.cmds[undo_stack.index].old_text,
                            undo_stack.index - 1)
       /\ (last'.op = "redo" /\ undo_stack.cmds[undo_stack.index + 1].kind = "cell")
          => CellCommandRan(undo_stack.cmds[undo_stack.index + 1],
                            undo_stack.cmds[undo_stack.index + 1].new_text,
                            undo_stack.index + 1)
       /\ (/\ last'.op = "edit_cell"
           /\ cell_text(_rows'[last'.args[1] + 1], last'.args[2])
                 # cell_text(_rows[last'.args[1] + 1], last'.args[2]))
          => /\ last'.ok
             /\ undo_stack'.index = undo_stack.index + 1
             /\ undo_stack'.cmds[undo_stack'.index].kind = "cell"]_vars

\* C26 witness: a cell edit was undone and then redone from the kept redo
\* history; the cell has the new text again and the signal is not suspended.
C26_Witness ==
    /\ last.op = "redo"
    /\ "undo" \in hist.kinds
    /\ undo_stack.index = 1
    /\ undo_stack.cmds[1].kind = "cell"
    /\ undo_stack.cmds[1].new_text # undo_stack.cmds[1].old_text
    /\ cell_text(_rows[undo_stack.cmds[1].row + 1], undo_stack.cmds[1].col)
          = undo_stack.cmds[1].new_text
    /\ ~_suspend_edit_signal

\* ------------------------------------------------------------------
\* The dirty flag
\* ------------------------------------------------------------------
\* the rows as extract_data returns them, an empty text counted as the
\* sentinel it stands for
StoredRows(header, rows) ==
    LET padded == extract_rows(header, rows)
    IN [r \in 1..Len(padded) |->
           [c \in 1..Len(padded[r]) |->
               IF padded[r][c] = <<>> THEN Sentinel ELSE padded[r][c]]]

\* the table of the model is the one last loaded or last handed to save_2da
ModelIsStoredTable ==
    /\ _header = <<<<>>>> \o data.header_fields
    /\ StoredRows(_header, _rows) = StoredRows(_header, data.row_fields)

\* every save_file call of the session has written the file in full: each
\* one advanced the modification time and the last one recorded it
EverySaveSucceeded == mtime = hist.saves /\ _last_mtime = mtime

\* C27: after any sequence of edits, commands, undo, redo and saves, a
\* document whose is_dirty is False shows the table of its last successful
\* load or save; in particular a document edited, saved and then undone is
\* flagged dirty.
C27_DirtyFlagConsistent ==
    (pc = "open" /\ ~is_dirty /\ EverySaveSucceeded) => ModelIsStoredTable

\* ------------------------------------------------------------------
\* External modification of the file
\* ------------------------------------------------------------------
\* C28: a save_file call that finds the file's modification time different
\* from the recorded one writes nothing; whatever the user answers to the
\* prompt the recorded time becomes the current one, so the next call is
\* not blocked; after a successful save the recorded time is the file's new
\* modification time, so the next call does not prompt either; a call that
\* finds the recorded time is never blocked.
C28_ExternalModificationProtocol ==
    [][/\ (last'.op \in {"save_file", "save_file_blocked"} /\ externally_modified)
          => /\ last'.op = "save_file_blocked"
             /\ disk' = disk
             /\ mtime' = mtime
       /\ (last'.op \in {"save_file", "save_file_blocked"} /\ ~externally_modified)
          => last'.op = "save_file"
       /\ last'.op \in {"save_file_blocked", "changeEvent"}
          => /\ _last_mtime' = mtime'
             /\ ~externally_modified'
       /\ (last'.op = "save_file" /\ last'.ok)
          => /\ mtime' # mtime
             /\ _last_mtime' = mtime'
             /\ ~externally_modified']_vars

\* C28 witness: another program wrote the file, a save_file call was
\* blocked, the user declined the reload (the document is still dirty from
\* the row deleted before), and the new time is recorded.
C28_Witness ==
    /\ last.op = "save_file_blocked"
    /\ is_dirty
    /\ disk \in ExternalFiles
    /\ mtime >= 1
    /\ _last_mtime = mtime

\* ------------------------------------------------------------------
\* Search and replace
\* ------------------------------------------------------------------
\* C29: find_next and find_previous never select a cell of column 0 (the
\* cursor is never there), and replace_current and replace_all leave the
\* first field of every row as it was, whatever the pattern, the
\* replacement and the cursor.
C29_IndexColumnNotSearched ==
    [][/\ last'.op \in {"find_next", "find_previous"}
          => /\ last'.args[2] >= 1
             /\ _search_last_col' = last'.args[2]
       /\ _search_last_col' # 0
       /\ last'.op \in {"replace_current", "replace_all"}
          => /\ Len(_rows') = Len(_rows)
             /\ \A r \in 1..Len(_rows) :
                   /\ Len(_rows'[r]) >= 1
                   /\ _rows'[r][1] = _rows[r][1]]_vars

\* C29 witness: with a pattern that matches the index field of a row, a
\* find call has selected a cell and a replacement has changed a cell of
\* that row, the index field being as opened.
C29_Witness ==
    /\ last.op \in {"replace_current", "replace_all"}
    /\ last.ok
    /\ \E r \in 1..Len(_rows) :
          /\ _rows[r] # Opened.row_fields[r]
          /\ _rows[r][1] = Opened.row_fields[r][1]
          /\ \E regex \in Patterns : search(regex, _rows[r][1]) # 0

\* the cells of columns >= 1 that the tables of the files can have
TableCells == (0..1) \X (1..2)

\* the cell p of the table matches the pattern set
IsMatch(p) ==
    /\ _search_regex # NoRegex
    /\ p[1] < Len(_rows)
    /\ p[2] < Len(_rows[p[1] + 1])
    /\ search(_search_regex, _rows[p[1] + 1][p[2] + 1]) # 0

\* C30: with the table and the pattern unchanged, repeated find_previous
\* calls cycle through all matching cells of columns >= 1: from any current
\* match every matching cell is eventually selected, the matches to the
\* right of the current one in its row included.
C30_FindPreviousCycles ==
    \A p \in TableCells :
        (_search_last_row >= 0 /\ IsMatch(p))
            ~> (_search_last_row = p[1] /\ _search_last_col = p[2])

====
